---- MODULE Spec2Model ----
(***************************************************************************)
(* OneDrive / Excel synchronisation of the invoice scanner.                *)
(*                                                                         *)
(* The repository holds three revisions of MicrosoftService:               *)
(*   "ts" : src/src/services/microsoftService.ts                           *)
(*   "A"  : src/unnamed/part_006, lines 1-825                              *)
(*   "B"  : src/unnamed/part_006, lines 826-2232                           *)
(* and one InvoiceService (src/src/services/invoiceService.ts).            *)
(* The variable rev names the revision a behaviour runs.                   *)
(*                                                                         *)
(* Three components are modelled, each with its own specification:         *)
(*   SpecSync   : workbook rows, local sync flags, upload/resync/delete    *)
(*                (revision "ts" under InvoiceService)                     *)
(*   SpecToken  : credential, PKCE verifier, refresh, login callback       *)
(*   SpecFolder : ensureDirectoryExists on the remote drive                *)
(* A handler of the sync and folder components is one action: it runs to   *)
(* its end on the remote state, and the set of its requests that fail is   *)
(* an input of the action.  A handler of the token component that awaits   *)
(* the token endpoint is two actions, so that calls interleave there.      *)
(***************************************************************************)
EXTENDS Integers, Sequences, FiniteSets, TLC

\* ---------------------------------------------------------------- bounds
NumInvoices == 2
MaxRows == 2
MaxAmount == 2

Ids == 1..NumInvoices
Amounts == 1..MaxAmount

VARIABLES
  rev,       \* revision of MicrosoftService in use
  wbFile,    \* remote workbook file: "absent", "valid", "badMime", "badFormat"
  sheet,     \* rows of the first worksheet, row 1 first
  folders,   \* remote drive: folder path -> number of folders created there
  files,     \* remote drive: ids of the invoices whose file is in the folder
  inv,       \* record store: Ids -> invoice record
  excelDone, \* ids whose Excel append/update step has completed successfully
  res,       \* what the last orchestrator call returned and did
  log,       \* remote requests issued by the last orchestrator call, in order
  tbl        \* workbook of revision B: Table1, its rows, rows outside it

VARIABLES
  now,          \* Date.now(), in ticks
  accessToken,  \* an access token is stored
  refreshToken, \* a refresh token is stored
  tokenExpiry,  \* stored expiry time; 0 when none is stored
  codeVerifier, \* the PKCE verifier is in localStorage
  sentState,    \* the state parameter of the last authorize URL; 0 when none
  url,          \* code and state parameters of the page URL
  pc,           \* per running call: "idle", "exchanging" or "refreshing"
  completed,    \* login callbacks that have returned since the last redirect
  tres          \* what the last token-manager call returned

VARIABLES
  syncing,      \* syncingMonths holds the month: its Sync All button is disabled
  batch,        \* unsyncedInvoices of the running batch, as ids in list order
  pos,          \* index in batch of the item the loop is at; 0 when no run
  bpc,          \* the batch handler: "idle", "confirm", "upload" or "delay"
  inflight,     \* indexes in batch whose uploadToOneDrive call has not returned
  successCount, \* successCount of the running batch
  failureCount, \* failureCount of the running batch
  runs          \* per running syncToExcel append: where it is, for which id

syncVars == <<wbFile, sheet, files, inv, excelDone, tbl>>
uiVars ==
  <<syncing, batch, pos, bpc, inflight, successCount, failureCount, runs>>
tokenVars ==
  <<now, accessToken, refreshToken, tokenExpiry, codeVerifier, sentState, url,
    pc, completed, tres>>
vars == <<rev, syncVars, folders, res, log, tokenVars, uiVars>>

\* ------------------------------------------------------- worksheet rows
HeaderId == -1
HeaderRow == [id |-> HeaderId, amount |-> 0]
DataRow(id, amount) == [id |-> id, amount |-> amount]

\* number of rows whose column 0 equals id
RowCount(s, id) == Cardinality({i \in 1..Len(s) : s[i].id = id})

\* range(address='A{n}:G{n}') PATCH: overwrite row n, or extend by one row
WriteRow(s, n, row) ==
  IF n <= Len(s) THEN [s EXCEPT ![n] = row] ELSE Append(s, row)

\* range(address='{n}:{n}') DELETE: the rows below shift up
DeleteRowAt(s, n) == [i \in 1..(Len(s) - 1) |-> IF i < n THEN s[i] ELSE s[i + 1]]

\* linear scan "for (let i = 1; i < values.length; i++)": first data row with
\* values[i][0] === sequence_id, as 1-indexed sheet row; 0 when none
FindTargetRow(s, id) ==
  LET hits == {i \in 2..Len(s) : s[i].id = id}
  IN IF hits = {} THEN 0 ELSE CHOOSE i \in hits : \A j \in hits : i <= j


\* ------------------------------------------------ remote state and faults
\* A handler works on the remote state R = [file, sheet, folders, log] and is
\* given F, the set of its requests that fail (network error / 5xx), and p404,
\* whether a not-found answer carries "404" in the error message
\* makeGraphRequest builds (it does not when the body is JSON with
\* error.message).
Remote ==
  [file |-> wbFile, sheet |-> sheet, folders |-> folders, files |-> files,
   log |-> <<>>, tbl |-> tbl]
Req(R, name) == [R EXCEPT !.log = Append(@, name)]

\* the workbook as revision B uses it: table is "none" (no Table1), "bare"
\* (Table1 added, header row not written) or "headed" (header row holds the
\* column list); rows are the ids of the rows of Table1, ws the ids of the
\* rows written on the worksheet outside Table1; creates counts the
\* tables/add requests that succeeded
NoTbl == [table |-> "none", rows |-> <<>>, ws |-> <<>>, creates |-> 0]
Ok(R) == [R |-> R, ok |-> TRUE, err |-> "none"]
Throw(R, e) == [R |-> R, ok |-> FALSE, err |-> e]

\* ------------------------------------------------------ drive folders
InvoiceDirectory == <<"Invoices">>
FolderPath == <<"A", "B", "C">>
Prefixes(path) == {SubSeq(path, 1, k) : k \in 1..Len(path)}
\* every place a revision can create a folder at: the prefixes of the
\* configured paths, and (revision A) a segment directly under the root
AllPaths ==
  Prefixes(InvoiceDirectory) \cup Prefixes(FolderPath)
    \cup {<<FolderPath[k]>> : k \in 1..Len(FolderPath)}
DirGet(k) == <<"dirGet1", "dirGet2", "dirGet3">>[k]
DirCreate(k) == <<"dirCreate1", "dirCreate2", "dirCreate3">>[k]
Exists(R, path) == path = <<>> \/ R.folders[path] > 0

\* POST {parent}/children {name, folder, conflictBehavior: rename}: the drive
\* refuses a child of a folder that does not exist, and keeps a same-named
\* folder beside the new one ("name 1")
DriveCreateFolder(R, parent, name) ==
  IF Exists(R, parent)
  THEN Ok([R EXCEPT !.folders[Append(parent, name)] = @ + 1])
  ELSE Throw(R, "other")

\* ---------------------------------------------------- revision "ts"
RECURSIVE ts_ensureDirectoryFrom(_, _, _, _, _)
ts_ensureDirectoryFrom(R, F, p404, path, k) ==
  IF k > Len(path) THEN Ok(R)
  ELSE
    LET cur == SubSeq(path, 1, k)
        R1 == Req(R, DirGet(k))
        R2 == Req(R1, DirCreate(k))
        made == DriveCreateFolder(R2, SubSeq(path, 1, k - 1), path[k])
    IN IF DirGet(k) \in F THEN Throw(R1, "other")
       ELSE IF Exists(R, cur) THEN ts_ensureDirectoryFrom(R1, F, p404, path, k + 1)
       ELSE IF ~p404 THEN Throw(R1, "other")
       ELSE IF DirCreate(k) \in F \/ ~made.ok THEN Throw(R2, "other")
       ELSE ts_ensureDirectoryFrom(made.R, F, p404, path, k + 1)

ts_ensureDirectoryExists(R, F, p404, path) ==
  ts_ensureDirectoryFrom(R, F, p404, path, 1)

\* --------------------------------------- ensureFolder, revisions A and B
\* revision A: "await fetch" answers a missing folder with a 404 response and
\* does not throw, so the catch runs on a network error only; it posts the
\* segment to root/children whatever its depth
RECURSIVE A_ensureDirectoryFrom(_, _, _, _)
A_ensureDirectoryFrom(R, F, path, k) ==
  IF k > Len(path) THEN Ok(R)
  ELSE
    LET R1 == Req(R, DirGet(k))
        R2 == Req(R1, DirCreate(k))
        made == DriveCreateFolder(R2, <<>>, path[k])
    IN IF DirGet(k) \notin F THEN A_ensureDirectoryFrom(R1, F, path, k + 1)
       ELSE IF DirCreate(k) \in F THEN Ok(R2)
       ELSE A_ensureDirectoryFrom(made.R, F, path, k + 1)

A_ensureDirectoryExists(R, F, path) == A_ensureDirectoryFrom(R, F, path, 1)

\* parentPath.replace(part, ''): drops the first occurrence of part
RECURSIVE StrReplace(_, _)
StrReplace(parentPath, part) ==
  IF parentPath = <<>> THEN <<>>
  ELSE IF Head(parentPath) = part THEN Tail(parentPath)
  ELSE <<Head(parentPath)>> \o StrReplace(Tail(parentPath), part)

RECURSIVE B_createFolderFrom(_, _, _, _)
B_createFolderFrom(R, F, path, k) ==
  IF k > Len(path) THEN Ok(R)
  ELSE
    LET cur == SubSeq(path, 1, k)
        parentPath == SubSeq(path, 1, k - 1)
        R1 == Req(R, DirGet(k))
        R2 == Req(R1, DirCreate(k))
        made == DriveCreateFolder(R2, StrReplace(parentPath, path[k]), path[k])
    IN IF DirGet(k) \in F \/ Exists(R, cur)
       THEN B_createFolderFrom(R1, F, path, k + 1)
       ELSE IF DirCreate(k) \in F \/ ~made.ok
       THEN B_createFolderFrom(R2, F, path, k + 1)
       ELSE B_createFolderFrom(made.R, F, path, k + 1)

B_createFolderPath(R, F, path) == B_createFolderFrom(R, F, path, 1)

B_ensureInvoicesFolderExists(R, F, path) ==
  LET R1 == Req(R, "dirCheck")
  IN IF "dirCheck" \in F \/ Exists(R, path) THEN Ok(R1)
     ELSE B_createFolderPath(R1, F, path)

ensureDirectoryOf(r, R, F, p404, path) ==
  CASE r = "ts" -> ts_ensureDirectoryExists(R, F, p404, path)
    [] r = "A" -> A_ensureDirectoryExists(R, F, path)
    [] OTHER -> B_ensureInvoicesFolderExists(R, F, path)

ts_uploadFile(R, F, id) ==
  LET R1 == Req(R, "upload")
  IN IF "upload" \in F THEN Throw(R1, "other")
     ELSE Ok([R1 EXCEPT !.files = @ \cup {id}])

ts_createExcelFile(R, F) ==
  LET R1 == Req(R, "fileCreate")
  IN IF "fileCreate" \in F THEN Throw(R1, "other")
     ELSE Ok([R1 EXCEPT !.file = "valid", !.sheet = <<>>])

ts_deleteAndRecreate(R, F) ==
  LET R1 == Req(R, "fileDelete")
  IN IF "fileDelete" \in F THEN Throw(R1, "other")
     ELSE ts_createExcelFile([R1 EXCEPT !.file = "absent", !.sheet = <<>>], F)

ts_getOrCreateExcelFile(R, F, p404) ==
  LET R1 == Req(R, "fileGet")
      R2 == Req(R1, "wsCheck")
  IN IF "fileGet" \in F THEN Throw(R1, "other")
     ELSE IF R.file = "absent"
       THEN IF p404 THEN ts_createExcelFile(R1, F) ELSE Throw(R1, "other")
     ELSE IF R.file = "badMime" THEN ts_deleteAndRecreate(R1, F)
     ELSE IF "wsCheck" \in F THEN Throw(R2, "other")
     ELSE IF R.file = "badFormat" THEN ts_deleteAndRecreate(R2, F)
     ELSE Ok(R2)

ts_ensureExcelHeaders(R, F) ==
  LET R1 == Req(R, "hdrGet")
      R2 == Req(R1, "hdrPatch")
  IN IF "hdrGet" \in F THEN Throw(R1, "other")
     ELSE IF Len(R.sheet) >= 1 THEN Ok(R1)
     ELSE IF "hdrPatch" \in F THEN Throw(R2, "other")
     ELSE Ok([R2 EXCEPT !.sheet = <<HeaderRow>>])

\* returns the row number; the request is logged by the caller
ts_findNextEmptyRow(R, F) ==
  IF "usedRange" \in F THEN 2
  ELSE IF Len(R.sheet) = 0 THEN 1
  ELSE Len(R.sheet) + 1

ts_appendToExcel(R, F, p404, row) ==
  LET wb == ts_getOrCreateExcelFile(R, F, p404)
      R1 == Req(wb.R, "wsList")
      hd == ts_ensureExcelHeaders(R1, F)
      R2 == Req(hd.R, "usedRange")
      nextRow == ts_findNextEmptyRow(hd.R, F)
      R3 == Req(R2, "rowPatch")
  IN IF ~wb.ok THEN Throw(wb.R, "other")
     ELSE IF "wsList" \in F THEN Throw(R1, "other")
     ELSE IF ~hd.ok THEN hd
     ELSE IF "rowPatch" \in F THEN Throw(R3, "other")
     ELSE Ok([R3 EXCEPT !.sheet = WriteRow(@, nextRow, row)])

ts_updateInExcel(R, F, p404, row) ==
  LET wb == ts_getOrCreateExcelFile(R, F, p404)
      R1 == Req(wb.R, "wsList")
      R2 == Req(R1, "usedRange")
      targetRow == FindTargetRow(R2.sheet, row.id)
      R3 == Req(R2, "rowPatch")
  IN IF ~wb.ok THEN wb
     ELSE IF "wsList" \in F THEN Throw(R1, "other")
     ELSE IF "usedRange" \in F THEN Throw(R2, "other")
     ELSE IF targetRow = 0 THEN Throw(R2, "not found in Excel")
     ELSE IF "rowPatch" \in F THEN Throw(R3, "other")
     ELSE Ok([R3 EXCEPT !.sheet = WriteRow(@, targetRow, row)])

\* returns {success, error}: ok is the success flag
ts_removeFromExcel(R, F, p404, id) ==
  LET wb == ts_getOrCreateExcelFile(R, F, p404)
      R1 == Req(wb.R, "wsList")
      R2 == Req(R1, "usedRange")
      targetRow == FindTargetRow(R2.sheet, id)
      R3 == Req(R2, "rowDelete")
  IN IF ~wb.ok THEN wb
     ELSE IF "wsList" \in F THEN Throw(R1, "other")
     ELSE IF "usedRange" \in F THEN Throw(R2, "other")
     ELSE IF targetRow = 0 THEN Ok(R2)
     ELSE IF "rowDelete" \in F THEN Throw(R3, "other")
     ELSE Ok([R3 EXCEPT !.sheet = DeleteRowAt(@, targetRow)])

\* the result of uploadInvoiceToOneDrive: ok is result.success, excel tells
\* what became of the Excel step ("none": not reached)
UpResult(r, excel) == [R |-> r.R, ok |-> r.ok, err |-> r.err, excel |-> excel]

ts_uploadInvoiceToOneDrive(R, F, p404, row) ==
  LET dir == ts_ensureDirectoryExists(R, F, p404, InvoiceDirectory)
      up == ts_uploadFile(dir.R, F, row.id)
      xl == ts_appendToExcel(up.R, F, p404, row)
  IN IF ~dir.ok THEN UpResult(dir, "none")
     ELSE IF ~up.ok THEN UpResult(up, "none")
     ELSE IF ~xl.ok THEN UpResult(Ok(xl.R), "failed")
     ELSE UpResult(Ok(xl.R), "ok")

ts_deleteFileFromOneDrive(R, F, id) ==
  LET R1 == Req(R, "fileItemDelete")
  IN IF "fileItemDelete" \in F \/ id \notin R.files THEN Throw(R1, "other")
     ELSE Ok([R1 EXCEPT !.files = @ \ {id}])

\* ------------------------------------- dispatch on the revision in use
appendToExcel(R, F, p404, row) == ts_appendToExcel(R, F, p404, row)
updateInExcel(R, F, p404, row) == ts_updateInExcel(R, F, p404, row)
removeFromExcel(R, F, p404, id) == ts_removeFromExcel(R, F, p404, id)
uploadInvoiceToOneDrive(R, F, p404, row) == ts_uploadInvoiceToOneDrive(R, F, p404, row)
deleteFileFromOneDrive(R, F, id) == ts_deleteFileFromOneDrive(R, F, id)

\* --------------------------------------------------- InvoiceService
\* What a call hands back: the remote state, the record as the store holds
\* it afterwards, result.success, the error, the fate of the Excel step,
\* whether the row lookup of an update missed, and whether the call ended
\* by an exception instead of a result.
Outcome(R, rec, ok, err, excel, miss) ==
  [R |-> R, rec |-> rec, ok |-> ok, err |-> err, excel |-> excel, miss |-> miss,
   threw |-> FALSE]
\* the same outcome reached by a throw
Thrown(out) == [out EXCEPT !.threw = TRUE]
\* a method body without a try/catch around it
uncaught(out) == out
\* a catch block that throws the error on
rethrow(out) == out
\* catch (error) { return { success: false, error: error.message } }
outerCatch(out) == [out EXCEPT !.threw = FALSE]
\* a cleanup step whose failure ends the call
failureStops(ok) == ~ok
\* the try/catch around each cleanup step of deleteInvoice, and the
\* console.warn on a result without success: the call goes on
cleanupFailureStops(ok) == FALSE

Synced(rec) == [rec EXCEPT !.uploaded = TRUE, !.fileUrl = TRUE, !.synced = TRUE]

InvoiceService_uploadToOneDrive(R, F, p404, rec, id) ==
  LET result == uploadInvoiceToOneDrive(R, F, p404, DataRow(id, rec.amount))
  IN outerCatch(
       IF "blob" \in F
         THEN Outcome(R, rec, FALSE, "Invoice file not found", "none", FALSE)
       ELSE IF ~result.ok
         THEN Outcome(result.R, rec, FALSE, result.err, result.excel, FALSE)
       ELSE IF "store" \in F
         \* updateInvoiceOneDriveStatus throws
         THEN Thrown(Outcome(result.R, rec, FALSE, "store", result.excel, FALSE))
       ELSE Outcome(result.R, Synced(rec), TRUE, "none", result.excel, FALSE))

\* updateInExcel and appendToExcel are Promise<void>: what resyncToExcel
\* awaits from them is undefined, so updateResult?.success is falsy
VoidResultSuccess == FALSE

\* a precondition that lets every record through
anyRecord(rec) == FALSE
\* !invoice.onedrive_uploaded || !invoice.onedrive_file_url
NotUploadedYet(rec) == ~rec.uploaded \/ ~rec.fileUrl

InvoiceService_resyncToExcel(R, F, p404, rec, id) ==
  LET row == DataRow(id, rec.amount)
      up == updateInExcel(R, F, p404, row)
      ap == appendToExcel(up.R, F, p404, row)
  IN outerCatch(
       IF NotUploadedYet(rec)
         THEN Outcome(R, rec, FALSE, "Invoice must be uploaded to OneDrive first",
                      "none", FALSE)
       ELSE IF up.ok
         THEN IF VoidResultSuccess
                THEN IF "store" \in F
                       THEN Thrown(Outcome(up.R, rec, FALSE, "store", "ok", FALSE))
                       ELSE Outcome(up.R, Synced(rec), TRUE, "none", "ok", FALSE)
                \* the else branch reads the unbound name `error`: ReferenceError,
                \* caught by the inner catch, rethrown, caught by the outer catch
                ELSE Thrown(Outcome(up.R, rec, FALSE, "error is not defined", "ok",
                                    FALSE))
       ELSE IF up.err = "not found in Excel"
         THEN IF ~ap.ok
                \* appendToExcel throws inside the catch block
                THEN Thrown(Outcome(ap.R, rec, FALSE, ap.err, "failed", TRUE))
                \* appendResult is undefined: appendResult.success is a TypeError
                \* thrown inside the catch block, caught by the outer catch
                ELSE Thrown(Outcome(ap.R, rec, FALSE, "TypeError", "ok", TRUE))
       \* throw error
       ELSE Thrown(Outcome(up.R, rec, FALSE, up.err, "failed", FALSE)))

InvoiceService_deleteInvoice(R, F, p404, rec, id) ==
  LET fileDel == deleteFileFromOneDrive(R, F, id)
      R1 == IF rec.uploaded /\ rec.fileUrl THEN fileDel.R ELSE R
      rowDel == removeFromExcel(R1, F, p404, id)
      R2 == IF rec.synced THEN rowDel.R ELSE R1
      excel == IF ~rec.synced THEN "none" ELSE IF rowDel.ok THEN "ok" ELSE "failed"
      fileStops == rec.uploaded /\ rec.fileUrl /\ cleanupFailureStops(fileDel.ok)
      rowStops == rec.synced /\ cleanupFailureStops(rowDel.ok)
  IN uncaught(
       IF fileStops
         THEN Thrown(Outcome(fileDel.R, rec, FALSE, fileDel.err, "none", FALSE))
       ELSE IF rowStops
         THEN Thrown(Outcome(R2, rec, FALSE, rowDel.err, excel, FALSE))
       \* SupabaseInvoiceService.deleteInvoice throws
       ELSE IF "store" \in F
         THEN Thrown(Outcome(R2, rec, FALSE, "store", excel, FALSE))
       ELSE Outcome(R2, [rec EXCEPT !.exists = FALSE], TRUE, "none", excel, FALSE))

\* ------------------------------------------------------------ faults
MaxFaults == 1
UploadReqs ==
  {"blob", "store", DirGet(1), DirCreate(1), "upload", "fileGet", "wsCheck",
   "fileDelete", "fileCreate", "wsList", "hdrGet", "hdrPatch", "usedRange",
   "rowPatch"}
ResyncReqs ==
  {"store", "fileGet", "wsCheck", "fileDelete", "fileCreate", "wsList",
   "hdrGet", "hdrPatch", "usedRange", "rowPatch"}
DeleteReqs ==
  {"store", "fileItemDelete", "fileGet", "wsCheck", "fileDelete", "fileCreate",
   "wsList", "usedRange", "rowDelete"}
RECURSIVE FaultsUpTo(_, _)
FaultsUpTo(reqs, n) ==
  IF n = 0 THEN {{}}
  ELSE LET less == FaultsUpTo(reqs, n - 1)
       IN less \cup {F \cup {r} : F \in less, r \in reqs}
Faults(reqs) == FaultsUpTo(reqs, MaxFaults)

\* ------------------------------------- revision B: the workbook table
MaxAttempts == 3    \* maxRetries of the three retry loops

\* a loop that allows itself one attempt more
oneAttemptMore(attempt) == attempt >= MaxAttempts + 1
\* `if (attempt >= maxRetries)` in the catch of the three retry loops
exhausted(attempt) == attempt >= MaxAttempts

\* requests of one name issued so far in the call
Count(l, name) == Cardinality({i \in 1..Len(l) : l[i] = name})
\* a fault <<name, n>> makes the first n requests of that name in a call fail
Fails(R, F, name) == \E f \in F : f[1] = name /\ Count(R.log, name) < f[2]

RECURSIVE Pow2(_)
Pow2(n) == IF n = 0 THEN 1 ELSE 2 * Pow2(n - 1)
\* setTimeout(resolve, seconds * 1000), kept in the log between the requests
WaitName(seconds) ==
  CASE seconds = 1 -> "wait1"
    [] seconds = 2 -> "wait2"
    [] seconds = 3 -> "wait3"
    [] seconds = 4 -> "wait4"
    [] seconds = 8 -> "wait8"
    [] OTHER -> "wait16"
Wait(R, seconds) == Req(R, WaitName(seconds))

\* a listing whose answer is not looked at
listIgnored(present) == FALSE
\* `if (existingTable) return` after a listing answered with 200
tableListed(present) == present

\* ensureExcelTableExists, the retry loop: any error of an attempt is caught
\* and the attempt repeated after 2^attempt seconds, the last one rethrown.
\* A listing answered with 404 goes on to the creation; the workbook refuses
\* tables/add over the range of a table that is there.
RECURSIVE B_tableAttempt(_, _, _, _)
B_tableAttempt(R, F, kind, attempt) ==
  LET R1 == Req(R, "tblList")
      R2 == Req(R1, "tblAdd")
      added == [R2 EXCEPT !.tbl.table = "bare", !.tbl.creates = @ + 1]
      R3 == Req(added, "hdrPatch")
      caught(Rf) ==
        IF exhausted(attempt + 1) THEN Throw(Rf, "other")
        ELSE B_tableAttempt(Wait(Rf, Pow2(attempt + 1)), F, kind, attempt + 1)
      listed == ~Fails(R, F, "tblList")
  IN IF ~listed /\ kind # "ItemNotFound" THEN caught(R1)
     ELSE IF listed /\ tableListed(R.tbl.table # "none") THEN Ok(R1)
     ELSE IF Fails(R1, F, "tblAdd") \/ R.tbl.table # "none" THEN caught(R2)
     ELSE IF Fails(added, F, "hdrPatch") THEN caught(R3)
     ELSE Ok([R3 EXCEPT !.tbl.table = "headed"])

B_ensureExcelTableExists(R, F, kind) ==
  LET R1 == Req(R, "wsList")
  IN IF Fails(R, F, "wsList") THEN Throw(R1, "other")
     ELSE B_tableAttempt(R1, F, kind, 0)

\* part_007: one attempt, and the answer of the header write is not read
C_ensureExcelTableExists(R, F) ==
  LET R1 == Req(Req(R, "wsList"), "tblList")
      R2 == Req(R1, "tblAdd")
      added == [R2 EXCEPT !.tbl.table = "bare", !.tbl.creates = @ + 1]
      R3 == Req(added, "hdrPatch")
  IN IF Fails(R, F, "wsList") \/ Fails(Req(R, "wsList"), F, "tblList")
       THEN Throw(R1, "other")
     ELSE IF tableListed(R.tbl.table # "none") THEN Ok(R1)
     ELSE IF Fails(R1, F, "tblAdd") \/ R.tbl.table # "none" THEN Throw(R2, "other")
     ELSE IF Fails(added, F, "hdrPatch") THEN Ok(R3)
     ELSE Ok([R3 EXCEPT !.tbl.table = "headed"])

RowIds(R) == {R.tbl.rows[i] : i \in 1..Len(R.tbl.rows)}

\* findExistingRow reads the rows of Table1; a failed read counts as no row
B_findExistingRow(R, F, id) ==
  [R |-> Req(R, "rowsGet"),
   found |-> ~Fails(R, F, "rowsGet") /\ R.tbl.table # "none" /\ id \in RowIds(R)]

\* updateExistingRow: true when the row was patched
B_updateExistingRow(R, F, id) ==
  LET R1 == Req(R, "rowsGet")
      R2 == Req(R1, "rowPatchAt")
  IN IF Fails(R, F, "rowsGet") \/ R.tbl.table = "none" \/ id \notin RowIds(R)
       THEN Throw(R1, "other")
     ELSE IF Fails(R1, F, "rowPatchAt") THEN Throw(R2, "other")
     ELSE Ok(R2)

\* attemptWorksheetAppend: the row is written to the worksheet range below
\* the used range, or to row 2 when the used range could not be read.
\* Whether a row written right below Table1 becomes a row of the table is
\* up to the workbook service: expand.
B_attemptWorksheetAppend(R, F, expand, id) ==
  LET R1 == Req(R, "wsList")
      R2 == Req(R1, "usedRange")
      R3 == Req(R2, "wsPatch")
      rangeOk == ~Fails(R1, F, "usedRange")
      below == IF expand /\ R.tbl.table # "none" /\ R.tbl.ws = <<>>
               THEN [R3 EXCEPT !.tbl.rows = Append(@, id)]
               ELSE [R3 EXCEPT !.tbl.ws = Append(@, id)]
      row2 == IF R.tbl.rows # <<>> THEN [R3 EXCEPT !.tbl.rows[1] = id]
              ELSE IF R.tbl.ws # <<>> THEN [R3 EXCEPT !.tbl.ws[1] = id]
              ELSE below
  IN IF Fails(R, F, "wsList") THEN Throw(R1, "other")
     ELSE IF Fails(R2, F, "wsPatch") THEN Throw(R3, "other")
     ELSE Ok(IF rangeOk THEN below ELSE row2)

\* appendToWorksheetDirectly: the attempt is repeated after 2^(attempt-1)
\* seconds whatever the error, the last error rethrown
RECURSIVE B_directAttempt(_, _, _, _, _)
B_directAttempt(R, F, expand, id, attempt) ==
  LET try == B_attemptWorksheetAppend(R, F, expand, id)
  IN IF try.ok THEN try
     ELSE IF exhausted(attempt + 1) THEN try
     ELSE B_directAttempt(Wait(try.R, Pow2(attempt)), F, expand, id, attempt + 1)

B_appendToWorksheetDirectly(R, F, expand, id) ==
  B_directAttempt(R, F, expand, id, 0)

\* appendRowToExcel: POST to Table1/rows; ItemNotFound is thrown to the
\* catch, any other error goes to the worksheet fallback inside the try; the
\* catch repeats the attempt after 2^(attempt-1) seconds and ends with the
\* worksheet fallback. (addHyperlinkFormula, which writes column F and
\* swallows its errors, is left out.)
RECURSIVE B_rowAttempt(_, _, _, _, _, _)
B_rowAttempt(R, F, kind, expand, id, attempt) ==
  LET R1 == Req(R, "rowPost")
      direct == B_appendToWorksheetDirectly(R1, F, expand, id)
      caught(Rf) ==
        IF exhausted(attempt + 1)
          THEN B_appendToWorksheetDirectly(Rf, F, expand, id)
          ELSE B_rowAttempt(Wait(Rf, Pow2(attempt)), F, kind, expand, id,
                            attempt + 1)
  IN IF ~Fails(R, F, "rowPost") /\ R.tbl.table # "none"
       THEN Ok([R1 EXCEPT !.tbl.rows = Append(@, id)])
     ELSE IF kind = "ItemNotFound" \/ R.tbl.table = "none" THEN caught(R1)
     ELSE IF direct.ok THEN direct
     ELSE caught(direct.R)

B_appendRowToExcel(R, F, kind, expand, id) ==
  B_rowAttempt(R, F, kind, expand, id, 0)

\* createExcelFile: a new empty workbook, 3 seconds, then its table
B_createExcelFile(R, F, kind) ==
  LET R1 == Req(R, "fileCreate")
      made == [R1 EXCEPT !.file = "valid", !.tbl = NoTbl]
  IN IF Fails(R, F, "fileCreate") THEN Throw(R1, "other")
     ELSE B_ensureExcelTableExists(Wait(made, 3), F, kind)

\* ensureExcelFileExists: search by name, create when nothing is found
B_ensureExcelFileExists(R, F, kind) ==
  LET R1 == Req(R, "search")
  IN IF R.file = "valid" THEN Ok(R1) ELSE B_createExcelFile(R1, F, kind)

\* syncToExcel after its token check: operation is "append" or "update"
B_syncToExcel(R, F, kind, expand, id, operation) ==
  LET file == B_ensureExcelFileExists(R, F, kind)
      table == B_ensureExcelTableExists(file.R, F, kind)
      find == B_findExistingRow(table.R, F, id)
      upd == B_updateExistingRow(find.R, F, id)
      app == B_appendRowToExcel(find.R, F, kind, expand, id)
  IN IF ~file.ok THEN file
     ELSE IF ~table.ok THEN table
     ELSE IF find.found
       THEN IF operation = "update"
              THEN IF upd.ok THEN upd
                   ELSE Throw(upd.R, "Failed to update existing Excel row")
              ELSE Throw(find.R, "Invoice already exists in Excel")
     ELSE app

\* ------------------------------------------------------- token manager
NumCalls == 2       \* calls that may be in flight together
NumStates == 2      \* distinct values of the state parameter
MaxTime == 4        \* ticks the clock may advance
Lifetime == 2       \* expires_in of the token endpoint, in ticks
DefaultLifetime == 2 \* the 1 hour storeTokens assumes without expires_in
BufferA == 1        \* the 5 minute buffer of revision A, in ticks
MaxCompleted == 3   \* login callbacks followed per redirect

Procs == 1..NumCalls
States == 1..NumStates

Cred ==
  [accessToken |-> accessToken, refreshToken |-> refreshToken,
   tokenExpiry |-> tokenExpiry, codeVerifier |-> codeVerifier]

\* a catch block that leaves the verifier where it is
keepVerifier(v) == v
\* removeItem(CODE_VERIFIER_KEY) in the catch block of the callback handler
removeVerifierOnError(v) == FALSE
\* removeItem(CODE_VERIFIER_KEY) after the tokens are stored
removeVerifierOnSuccess(v) == FALSE

ts_clearTokenData(C) ==
  [accessToken |-> FALSE, refreshToken |-> FALSE, tokenExpiry |-> 0,
   codeVerifier |-> FALSE]
A_clearStoredTokens(C) ==
  [accessToken |-> FALSE, refreshToken |-> FALSE, tokenExpiry |-> 0,
   codeVerifier |-> FALSE]
B_logout(C) ==
  [C EXCEPT !.accessToken = FALSE, !.refreshToken = FALSE, !.tokenExpiry = 0]

\* isAuthenticated / checkTokenValidity: [C |-> credential after, ok |-> answer]
ts_isAuthenticated(C, t) ==
  IF ~C.accessToken THEN [C |-> C, ok |-> FALSE]
  ELSE IF t >= C.tokenExpiry THEN [C |-> ts_clearTokenData(C), ok |-> FALSE]
  ELSE [C |-> C, ok |-> TRUE]
A_isAuthenticated(C, t) ==
  [C |-> C,
   ok |-> C.accessToken /\ C.tokenExpiry # 0 /\ t < C.tokenExpiry - BufferA]
B_checkTokenValidity(C, t) ==
  C.accessToken /\ (C.tokenExpiry = 0 \/ C.tokenExpiry - t > 0)
B_isAuthenticated(C, t) ==
  IF ~C.accessToken THEN [C |-> C, ok |-> FALSE]
  ELSE IF C.tokenExpiry = 0 \/ t < C.tokenExpiry THEN [C |-> C, ok |-> TRUE]
  ELSE [C |-> B_logout(C), ok |-> FALSE]

\* the credential a successful token exchange leaves
ts_storeExchange(C, t, hasRefresh, hasExp) ==
  [accessToken |-> TRUE, refreshToken |-> hasRefresh,
   tokenExpiry |-> IF hasExp THEN t + Lifetime ELSE 0,
   codeVerifier |-> removeVerifierOnSuccess(C.codeVerifier)]
A_storeTokens(C, t, hasRefresh, hasExp) ==
  [C EXCEPT !.accessToken = TRUE,
            !.refreshToken = C.refreshToken \/ hasRefresh,
            !.tokenExpiry = t + (IF hasExp THEN Lifetime ELSE DefaultLifetime)]
A_storeExchange(C, t, hasRefresh, hasExp) ==
  [A_storeTokens(C, t, hasRefresh, hasExp)
     EXCEPT !.codeVerifier = removeVerifierOnSuccess(C.codeVerifier)]
B_storeExchange(C, t, hasRefresh, hasExp) ==
  [accessToken |-> TRUE, refreshToken |-> C.refreshToken \/ hasRefresh,
   tokenExpiry |-> IF hasExp THEN t + Lifetime ELSE C.tokenExpiry,
   codeVerifier |-> removeVerifierOnSuccess(C.codeVerifier)]
B_storeRefresh(C, t, hasRefresh) ==
  [C EXCEPT !.accessToken = TRUE,
            !.refreshToken = C.refreshToken \/ hasRefresh,
            !.tokenExpiry = t + Lifetime]

\* configure(): loadTokenData / loadStoredTokens at page load
A_loadStoredTokens(C, t) ==
  IF C.accessToken /\ C.tokenExpiry # 0 /\ ~(t < C.tokenExpiry)
  THEN A_clearStoredTokens(C) ELSE C
loadStoredTokens(r, C, t) == IF r = "A" THEN A_loadStoredTokens(C, t) ELSE C

storeExchange(r, C, t, hasRefresh, hasExp) ==
  CASE r = "ts" -> ts_storeExchange(C, t, hasRefresh, hasExp)
    [] r = "A" -> A_storeExchange(C, t, hasRefresh, hasExp)
    [] OTHER -> B_storeExchange(C, t, hasRefresh, hasExp)
isAuthenticatedOf(r, C, t) ==
  CASE r = "ts" -> ts_isAuthenticated(C, t)
    [] r = "A" -> A_isAuthenticated(C, t)
    [] OTHER -> B_isAuthenticated(C, t)
logoutOf(r, C) ==
  CASE r = "ts" -> ts_clearTokenData(C)
    [] r = "A" -> A_clearStoredTokens(C)
    [] OTHER -> B_logout(C)

NoTRes ==
  [op |-> "none", ok |-> FALSE, err |-> "none", exchanged |-> FALSE,
   hadVerifier |-> FALSE, stateOk |-> FALSE, nth |-> 0]
NoUrl == [code |-> FALSE, state |-> 0]
Idle == [p \in Procs |-> "idle"]

SetCred(C) ==
  /\ accessToken' = C.accessToken
  /\ refreshToken' = C.refreshToken
  /\ tokenExpiry' = C.tokenExpiry
  /\ codeVerifier' = C.codeVerifier

TokenFrame == UNCHANGED <<rev, syncVars, folders, res, log, uiVars>>

\* initiateLogin: store a fresh verifier, put a random state in the authorize
\* URL (it is stored nowhere) and leave the page
initiateLogin(s) ==
  /\ TokenFrame
  /\ codeVerifier' = TRUE
  /\ sentState' = s
  /\ url' = NoUrl
  /\ pc' = Idle
  /\ completed' = 0
  /\ tres' = [NoTRes EXCEPT !.op = "initiateLogin"]
  /\ UNCHANGED <<now, accessToken, refreshToken, tokenExpiry>>

\* page load: main.tsx calls MicrosoftService.configure; the URL may be the
\* redirect URI with ?code=..&state=.. ; calls of the previous page are gone
configure(code, s) ==
  /\ TokenFrame
  /\ url' = [code |-> code, state |-> IF code THEN s ELSE 0]
  /\ pc' = Idle
  /\ SetCred(loadStoredTokens(rev, Cred, now))
  /\ tres' = [NoTRes EXCEPT !.op = "configure"]
  /\ UNCHANGED <<now, sentState, completed>>

\* AuthCallback effect with a code in the URL, up to the await of the token
\* request: handleAuthorizationCallback(code) reads the verifier
AuthCallback(p) ==
  /\ TokenFrame
  /\ pc[p] = "idle"
  /\ url.code
  /\ completed + Cardinality({q \in Procs : pc[q] = "exchanging"}) < MaxCompleted
  /\ IF codeVerifier
     THEN /\ pc' = [pc EXCEPT ![p] = "exchanging"]
          /\ tres' = [NoTRes EXCEPT !.op = "exchange"]
          /\ UNCHANGED <<url, completed, codeVerifier>>
     ELSE /\ tres' = [op |-> "callback", ok |-> FALSE, err |-> "MissingVerifier",
                      exchanged |-> FALSE, hadVerifier |-> FALSE,
                      stateOk |-> url.state = sentState, nth |-> completed + 1]
          /\ codeVerifier' = IF rev = "B" THEN codeVerifier
                             ELSE removeVerifierOnError(codeVerifier)
          /\ url' = NoUrl
          /\ completed' = completed + 1
          /\ UNCHANGED pc
  /\ UNCHANGED <<now, accessToken, refreshToken, tokenExpiry, sentState>>

\* the token endpoint answers the exchange; on return the effect navigates to /
handleAuthorizationCallback(p, ok, hasRefresh, hasExp) ==
  /\ TokenFrame
  /\ pc[p] = "exchanging"
  /\ pc' = [pc EXCEPT ![p] = "idle"]
  /\ IF ok
     THEN SetCred(storeExchange(rev, Cred, now, hasRefresh, hasExp))
     ELSE SetCred([Cred EXCEPT !.codeVerifier = removeVerifierOnError(@)])
  /\ tres' = [op |-> "callback", ok |-> ok,
              err |-> IF ok THEN "none" ELSE "ExchangeFailed",
              exchanged |-> TRUE, hadVerifier |-> TRUE,
              stateOk |-> url.state = sentState, nth |-> completed + 1]
  /\ url' = NoUrl
  /\ completed' = completed + 1
  /\ UNCHANGED <<now, sentState>>

\* ensureValidToken up to the await of the refresh request (revisions A and B)
ensureValidToken(p) ==
  /\ TokenFrame
  /\ rev \in {"A", "B"}
  /\ pc[p] = "idle"
  /\ LET valid == IF rev = "A" THEN A_isAuthenticated(Cred, now).ok
                  ELSE B_checkTokenValidity(Cred, now)
     IN IF valid
        THEN /\ tres' = [NoTRes EXCEPT !.op = "ensureValidToken", !.ok = TRUE]
             /\ UNCHANGED pc
        ELSE IF refreshToken
        THEN /\ pc' = [pc EXCEPT ![p] = "refreshing"]
             /\ tres' = [NoTRes EXCEPT !.op = "refresh"]
        ELSE /\ tres' = [NoTRes EXCEPT !.op = "ensureValidToken",
                                       !.err = "NotAuthenticated"]
             /\ UNCHANGED pc
  /\ UNCHANGED <<now, accessToken, refreshToken, tokenExpiry, codeVerifier,
                 sentState, url, completed>>

\* the token step an upload starts with, up to the await of a refresh request:
\* revision B logs isAuthenticated() and then calls ensureValidToken,
\* revision A calls ensureValidToken, revision ts has makeGraphRequest ask
\* isAuthenticated() and throw 'Not authenticated with Microsoft'
uploadInvoiceAuth(p) ==
  /\ TokenFrame
  /\ pc[p] = "idle"
  /\ LET C1 == IF rev = "A" THEN Cred ELSE isAuthenticatedOf(rev, Cred, now).C
         valid == CASE rev = "ts" -> ts_isAuthenticated(Cred, now).ok
                    [] rev = "A" -> A_isAuthenticated(Cred, now).ok
                    [] OTHER -> B_checkTokenValidity(C1, now)
     IN /\ SetCred(C1)
        /\ IF valid
           THEN /\ tres' = [NoTRes EXCEPT !.op = "uploadAuth", !.ok = TRUE]
                /\ UNCHANGED pc
           ELSE IF rev # "ts" /\ C1.refreshToken
           THEN /\ pc' = [pc EXCEPT ![p] = "refreshing"]
                /\ tres' = [NoTRes EXCEPT !.op = "refresh"]
           ELSE /\ tres' = [NoTRes EXCEPT !.op = "uploadAuth",
                                          !.err = "NotAuthenticated"]
                /\ UNCHANGED pc
  /\ UNCHANGED <<now, sentState, url, completed>>

\* the token endpoint answers the refresh request
refreshAccessToken(p, ok, hasRefresh) ==
  /\ TokenFrame
  /\ pc[p] = "refreshing"
  /\ pc' = [pc EXCEPT ![p] = "idle"]
  /\ IF ok
     THEN SetCred(IF rev = "A" THEN A_storeTokens(Cred, now, hasRefresh, TRUE)
                  ELSE B_storeRefresh(Cred, now, hasRefresh))
     ELSE SetCred(IF rev = "A" THEN A_clearStoredTokens(Cred) ELSE B_logout(Cred))
  /\ tres' = [NoTRes EXCEPT !.op = "ensureValidToken", !.ok = ok,
                            !.err = IF ok THEN "none" ELSE "RefreshFailed"]
  /\ UNCHANGED <<now, sentState, url, completed>>

isAuthenticated ==
  /\ TokenFrame
  /\ SetCred(isAuthenticatedOf(rev, Cred, now).C)
  /\ tres' = [NoTRes EXCEPT !.op = "isAuthenticated",
                            !.ok = isAuthenticatedOf(rev, Cred, now).ok]
  /\ UNCHANGED <<now, sentState, url, pc, completed>>

logout ==
  /\ TokenFrame
  /\ SetCred(logoutOf(rev, Cred))
  /\ tres' = [NoTRes EXCEPT !.op = "logout"]
  /\ UNCHANGED <<now, sentState, url, pc, completed>>

Tick ==
  /\ TokenFrame
  /\ now < MaxTime
  /\ now' = now + 1
  /\ tres' = [NoTRes EXCEPT !.op = "tick"]
  /\ UNCHANGED <<accessToken, refreshToken, tokenExpiry, codeVerifier,
                 sentState, url, pc, completed>>

InitTokenVars ==
  /\ now = 0
  /\ accessToken = FALSE
  /\ refreshToken = FALSE
  /\ tokenExpiry = 0
  /\ codeVerifier = FALSE
  /\ sentState = 0
  /\ url = NoUrl
  /\ pc = Idle
  /\ completed = 0
  /\ tres = NoTRes

NoRun == [at |-> "idle", id |-> 0, read |-> FALSE]

InitUi ==
  /\ runs = [p \in Procs |-> NoRun]
  /\ syncing = FALSE
  /\ batch = <<>>
  /\ pos = 0
  /\ bpc = "idle"
  /\ inflight = {}
  /\ successCount = 0
  /\ failureCount = 0

\* ------------------------------------------------------------ actions
NoRes ==
  [op |-> "none", id |-> 0, success |-> FALSE, err |-> "none", excel |-> "none",
   miss |-> FALSE, clean |-> FALSE, before |-> 0, threw |-> FALSE,
   kind |-> "none", auth |-> FALSE]

Commit(op, id, F, out) ==
  /\ Len(out.R.sheet) <= MaxRows + 1
  /\ wbFile' = out.R.file
  /\ sheet' = out.R.sheet
  /\ folders' = out.R.folders
  /\ files' = out.R.files
  /\ tbl' = out.R.tbl
  /\ log' = out.R.log
  /\ inv' = [inv EXCEPT ![id] = out.rec]
  /\ excelDone' = IF op \in {"upload", "resync"} /\ out.excel = "ok"
                  THEN excelDone \cup {id} ELSE excelDone
  /\ res' = [op |-> op, id |-> id, success |-> out.ok, err |-> out.err,
             excel |-> out.excel, miss |-> out.miss, clean |-> F = {},
             before |-> RowCount(sheet, id), threw |-> out.threw,
             kind |-> "none", auth |-> FALSE]
  /\ UNCHANGED <<rev, tokenVars>>

uploadToOneDrive(id) ==
  /\ inv[id].exists
  /\ \E F \in Faults(UploadReqs), p404 \in BOOLEAN :
       Commit("upload", id, F,
              InvoiceService_uploadToOneDrive(Remote, F, p404, inv[id], id))
  /\ UNCHANGED uiVars

resyncToExcel(id) ==
  /\ inv[id].exists
  /\ \E F \in Faults(ResyncReqs), p404 \in BOOLEAN :
       Commit("resync", id, F,
              InvoiceService_resyncToExcel(Remote, F, p404, inv[id], id))
  /\ UNCHANGED uiVars

deleteInvoice(id) ==
  /\ inv[id].exists
  /\ \E F \in Faults(DeleteReqs), p404 \in BOOLEAN :
       Commit("delete", id, F,
              InvoiceService_deleteInvoice(Remote, F, p404, inv[id], id))
  /\ UNCHANGED uiVars

\* InvoiceService.updateInvoice: the user edits the amount and saves
updateInvoice(id, a) ==
  /\ inv[id].exists
  /\ inv[id].amount # a
  /\ inv' = [inv EXCEPT ![id].amount = a]
  /\ res' = [NoRes EXCEPT !.op = "edit", !.id = id]
  /\ log' = <<>>
  /\ UNCHANGED <<rev, wbFile, sheet, folders, files, excelDone, tbl, tokenVars,
                  uiVars>>

InitSync ==
  /\ rev \in {"ts"}
  /\ wbFile \in {"absent", "valid", "badMime", "badFormat"}
  /\ sheet = <<>>
  /\ folders = [p \in AllPaths |-> 0]
  /\ files = {}
  /\ inv = [id \in Ids |-> [exists |-> TRUE, uploaded |-> FALSE, fileUrl |-> FALSE,
                             synced |-> FALSE, amount |-> 1]]
  /\ excelDone = {}
  /\ tbl = NoTbl
  /\ res = NoRes
  /\ log = <<>>
  /\ InitTokenVars
  /\ InitUi

NextSync ==
  \/ \E id \in Ids : uploadToOneDrive(id)
  \/ \E id \in Ids : resyncToExcel(id)
  \/ \E id \in Ids : deleteInvoice(id)
  \/ \E id \in Ids, a \in Amounts : updateInvoice(id, a)

SpecSync == InitSync /\ [][NextSync]_vars

\* App.handleSubmitInvoice for an invoice under edit: updateInvoice, then
\* resyncToExcel when the saved record is uploaded and synced, then, when
\* MicrosoftService.isAuthenticated(), uploadToOneDrive of the saved record.
\* An exception of updateInvoice ends the handler with "Save Failed".
App_handleSubmitInvoice(R, F, p404, rec, id, a, C, t, saved) ==
  LET savedInvoice == [rec EXCEPT !.amount = a]
      rs == IF savedInvoice.uploaded /\ savedInvoice.synced
            THEN InvoiceService_resyncToExcel(R, F, p404, savedInvoice, id)
            ELSE Outcome(R, savedInvoice, TRUE, "none", "none", FALSE)
      auth == ts_isAuthenticated(C, t)
      \* the status write of the resync, had it happened, is in the record
      up == IF auth.ok
            THEN InvoiceService_uploadToOneDrive(rs.R, F, p404, rs.rec, id)
            ELSE [rs EXCEPT !.ok = TRUE]
  IN IF ~saved
       THEN [R |-> R, rec |-> rec, ok |-> FALSE, err |-> "Save Failed", C |-> C,
             excelOk |-> FALSE, auth |-> FALSE]
       ELSE [R |-> up.R, rec |-> up.rec, ok |-> up.ok, err |-> up.err,
             C |-> auth.C, excelOk |-> "ok" \in {rs.excel, up.excel},
             auth |-> auth.ok]

CommitApp(id, F, out) ==
  /\ Len(out.R.sheet) <= MaxRows + 1
  /\ wbFile' = out.R.file
  /\ sheet' = out.R.sheet
  /\ folders' = out.R.folders
  /\ files' = out.R.files
  /\ tbl' = out.R.tbl
  /\ log' = out.R.log
  /\ inv' = [inv EXCEPT ![id] = out.rec]
  /\ excelDone' = IF out.excelOk THEN excelDone \cup {id} ELSE excelDone
  /\ accessToken' = out.C.accessToken
  /\ refreshToken' = out.C.refreshToken
  /\ tokenExpiry' = out.C.tokenExpiry
  /\ codeVerifier' = out.C.codeVerifier
  /\ res' = [NoRes EXCEPT !.op = "submit", !.id = id, !.success = out.ok,
                          !.err = out.err, !.clean = F = {},
                          !.before = RowCount(sheet, id), !.auth = out.auth]
  /\ UNCHANGED <<rev, now, sentState, url, pc, completed, tres, uiVars>>

handleSubmitInvoice(id, a) ==
  /\ inv[id].exists
  /\ inv[id].amount # a
  /\ \E F \in Faults(UploadReqs), p404 \in BOOLEAN, saved \in BOOLEAN :
       CommitApp(id, F, App_handleSubmitInvoice(Remote, F, p404, inv[id], id, a,
                                                Cred, now, saved))

\* the application with Microsoft connected or not: the record of every
\* invoice is there, nothing is uploaded yet
InitApp ==
  /\ rev = "ts"
  /\ wbFile \in {"absent", "valid"}
  /\ sheet = <<>>
  /\ folders = [p \in AllPaths |-> 0]
  /\ files = {}
  /\ inv = [id \in Ids |-> [exists |-> TRUE, uploaded |-> FALSE, fileUrl |-> FALSE,
                             synced |-> FALSE, amount |-> 1]]
  /\ excelDone = {}
  /\ tbl = NoTbl
  /\ res = NoRes
  /\ log = <<>>
  /\ InitUi
  /\ now = 0
  /\ accessToken \in BOOLEAN
  /\ refreshToken = FALSE
  /\ tokenExpiry = IF accessToken THEN Lifetime ELSE 0
  /\ codeVerifier = FALSE
  /\ sentState = 0
  /\ url = NoUrl
  /\ pc = Idle
  /\ completed = 0
  /\ tres = NoTRes

NextApp == \E id \in Ids, a \in Amounts : handleSubmitInvoice(id, a)

SpecApp == InitApp /\ [][NextApp]_vars

InitToken ==
  /\ rev \in {"ts", "A", "B"}
  /\ wbFile = "absent"
  /\ sheet = <<>>
  /\ folders = [p \in AllPaths |-> 0]
  /\ files = {}
  /\ inv = [id \in Ids |-> [exists |-> TRUE, uploaded |-> FALSE, fileUrl |-> FALSE,
                             synced |-> FALSE, amount |-> 1]]
  /\ excelDone = {}
  /\ tbl = NoTbl
  /\ res = NoRes
  /\ log = <<>>
  /\ InitTokenVars
  /\ InitUi

NextToken ==
  \/ \E s \in States : initiateLogin(s)
  \/ \E code \in BOOLEAN, s \in States : configure(code, s)
  \/ \E p \in Procs : AuthCallback(p)
  \/ \E p \in Procs, ok \in BOOLEAN, hasRefresh \in BOOLEAN, hasExp \in BOOLEAN :
       handleAuthorizationCallback(p, ok, hasRefresh, hasExp)
  \/ \E p \in Procs : ensureValidToken(p)
  \/ \E p \in Procs : uploadInvoiceAuth(p)
  \/ \E p \in Procs, ok \in BOOLEAN, hasRefresh \in BOOLEAN :
       refreshAccessToken(p, ok, hasRefresh)
  \/ isAuthenticated
  \/ logout
  \/ Tick

SpecToken == InitToken /\ [][NextToken]_vars

\* ------------------------------------------------------ folder component
MaxFolders == 2     \* folders of one name under one parent

FolderReqs ==
  {"dirCheck"} \cup {DirGet(k) : k \in 1..Len(FolderPath)}
    \cup {DirCreate(k) : k \in 1..Len(FolderPath)}

\* the upload path ensures the configured invoice directory, here a prefix of
\* FolderPath; res.id holds the depth of the path, res.before whether every
\* folder of the path was there before the call
ensureFolder(path) ==
  /\ \E F \in Faults(FolderReqs), p404 \in BOOLEAN :
       LET out == ensureDirectoryOf(rev, Remote, F, p404, path)
       IN /\ \A q \in AllPaths : out.R.folders[q] <= MaxFolders
          /\ folders' = out.R.folders
          /\ log' = out.R.log
          /\ res' = [NoRes EXCEPT !.op = "ensureFolder", !.id = Len(path),
                                  !.success = out.ok, !.err = out.err,
                                  !.clean = F = {},
                                  !.before = IF \A q \in Prefixes(path) :
                                                  folders[q] > 0
                                             THEN 1 ELSE 0]
  /\ UNCHANGED <<rev, syncVars, tokenVars, uiVars>>

NextFolder == \E path \in Prefixes(FolderPath) : ensureFolder(path)

InitFolder == InitToken

SpecFolder == InitFolder /\ [][NextFolder]_vars

\* --------------------------- MicrosoftService calls with their token check
Kinds == {"ItemNotFound", "BadRequest", "Unauthorized"}
Names(F) == {f[1] : f \in F}
\* requests of the workbook part of revision B, and of its upload
TableReqs ==
  {"fileCreate", "wsList", "tblList", "tblAdd", "hdrPatch", "rowsGet",
   "rowPost", "rowPatchAt", "usedRange", "wsPatch"}
DriveReqs == {"dirCheck", DirGet(1), DirCreate(1), "upload"}
\* a request of the workbook part fails once, or on every attempt of a retry
\* loop; a request of an upload fails once
TableFaults == FaultsUpTo(TableReqs \X {1, MaxAttempts}, MaxFaults)
UploadFaults ==
  IF rev = "ts"
  THEN FaultsUpTo((UploadReqs \ {"blob", "store"}) \X {1}, MaxFaults)
  ELSE FaultsUpTo((DriveReqs \cup TableReqs) \X {1}, MaxFaults)

\* what a MicrosoftService call leaves: remote state, credential, result,
\* and whether its token check passed
MSOut(R, C, ok, err, auth) ==
  [R |-> R, C |-> C, ok |-> ok, err |-> err, auth |-> auth]

\* revision B, ensureValidToken: a refresh request is sent when the token is
\* not valid and a refresh token is there; refreshOk is the endpoint's answer
B_ensureValidToken(C, t, refreshOk, hasRefresh) ==
  IF B_checkTokenValidity(C, t) THEN [C |-> C, ok |-> TRUE]
  ELSE IF C.refreshToken
    THEN IF refreshOk THEN [C |-> B_storeRefresh(C, t, hasRefresh), ok |-> TRUE]
         ELSE [C |-> B_logout(C), ok |-> FALSE]
  ELSE [C |-> C, ok |-> FALSE]

\* a 401 answer to the file upload: the stored tokens are removed
B_purgeOn401(C) ==
  [C EXCEPT !.accessToken = FALSE, !.refreshToken = FALSE, !.tokenExpiry = 0]
\* a 401 answer that leaves the stored tokens where they are
keepTokens(C) == C
\* the 401 branch of the upload in use
purgeOn401(C) == B_purgeOn401(C)

\* a call that goes on whatever the token check said
skipTokenCheck(ok) == TRUE
\* `if (!hasValidToken) return ...` of revision B, and the throw at the head
\* of makeGraphRequest of revision ts
requireToken(ok) == ok

B_uploadInvoiceToOneDrive(R, F, kind, expand, C, t, refreshOk, hasRefresh, id) ==
  LET C1 == B_isAuthenticated(C, t).C
      token == B_ensureValidToken(C1, t, refreshOk, hasRefresh)
      dir == B_ensureInvoicesFolderExists(R, Names(F), InvoiceDirectory)
      R1 == Req(dir.R, "upload")
      R2 == Req([R1 EXCEPT !.files = @ \cup {id}], "createLink")
      xl == B_syncToExcel(R2, F, kind, expand, id, "append")
  IN IF ~requireToken(token.ok)
       THEN MSOut(R, token.C, FALSE, "Authentication required", FALSE)
     ELSE IF Fails(dir.R, F, "upload")
       THEN IF kind = "Unauthorized"
              THEN MSOut(R1, purgeOn401(token.C), FALSE, "Authentication expired",
                         token.ok)
              ELSE MSOut(R1, token.C, FALSE, "other", token.ok)
     ELSE MSOut(xl.R, token.C, xl.ok, xl.err, token.ok)

\* revision ts: the token is checked by makeGraphRequest, first in
\* ensureDirectoryExists; uploadFile reads no status but response.ok
ts_uploadInvoiceWithToken(R, F, p404, C, t, row) ==
  LET auth == ts_isAuthenticated(C, t)
      up == ts_uploadInvoiceToOneDrive(R, Names(F), p404, row)
  IN IF ~requireToken(auth.ok)
       THEN MSOut(R, auth.C, FALSE, "Not authenticated with Microsoft", FALSE)
       ELSE MSOut(up.R, auth.C, up.ok, up.err, auth.ok)

\* appendToExcel / updateInExcel of revision B: syncToExcel with its check
B_syncWithToken(R, F, kind, expand, C, t, refreshOk, hasRefresh, id, operation) ==
  LET token == B_ensureValidToken(C, t, refreshOk, hasRefresh)
      xl == B_syncToExcel(R, F, kind, expand, id, operation)
  IN IF ~token.ok
       THEN MSOut(R, token.C, FALSE, "Authentication required", FALSE)
       ELSE MSOut(xl.R, token.C, xl.ok, xl.err, TRUE)

CommitMS(op, id, kind, F, out) ==
  /\ Len(out.R.tbl.rows) + Len(out.R.tbl.ws) <= MaxRows
  /\ Len(out.R.sheet) <= MaxRows + 1
  /\ wbFile' = out.R.file
  /\ sheet' = out.R.sheet
  /\ folders' = out.R.folders
  /\ files' = out.R.files
  /\ tbl' = out.R.tbl
  /\ log' = out.R.log
  /\ accessToken' = out.C.accessToken
  /\ refreshToken' = out.C.refreshToken
  /\ tokenExpiry' = out.C.tokenExpiry
  /\ res' = [NoRes EXCEPT !.op = op, !.id = id, !.success = out.ok,
                          !.err = out.err, !.clean = F = {}, !.kind = kind,
                          !.auth = out.auth]
  /\ UNCHANGED <<rev, inv, excelDone, uiVars>>
  /\ UNCHANGED <<now, codeVerifier, sentState, url, pc, completed, tres>>

MS_uploadInvoiceToOneDrive(id) ==
  /\ rev \in {"ts", "B"}
  /\ \E F \in UploadFaults, kind \in Kinds, b \in BOOLEAN, refreshOk \in BOOLEAN :
       CommitMS("msUpload", id, kind, F,
                IF rev = "ts"
                THEN ts_uploadInvoiceWithToken(Remote, F, b, Cred, now,
                                               DataRow(id, inv[id].amount))
                ELSE B_uploadInvoiceToOneDrive(Remote, F, kind, b, Cred, now,
                                               refreshOk, TRUE, id))

MS_appendToExcel(id) ==
  /\ rev = "B"
  /\ \E F \in TableFaults, kind \in Kinds \ {"Unauthorized"}, expand \in BOOLEAN,
        refreshOk \in BOOLEAN :
       CommitMS("msAppend", id, kind, F,
                B_syncWithToken(Remote, F, kind, expand, Cred, now, refreshOk,
                                TRUE, id, "append"))

MS_updateInExcel(id) ==
  /\ rev = "B"
  /\ \E F \in TableFaults, kind \in Kinds \ {"Unauthorized"}, expand \in BOOLEAN,
        refreshOk \in BOOLEAN :
       CommitMS("msUpdate", id, kind, F,
                B_syncWithToken(Remote, F, kind, expand, Cred, now, refreshOk,
                                TRUE, id, "update"))

\* ensureExcelTableExists on the workbook, as syncToExcel and createExcelFile
\* call it
MS_ensureExcelTableExists ==
  /\ rev \in {"B", "C"}
  /\ wbFile = "valid"
  /\ \E F \in TableFaults, kind \in Kinds \ {"Unauthorized"} :
       LET out == IF rev = "B" THEN B_ensureExcelTableExists(Remote, F, kind)
                  ELSE C_ensureExcelTableExists(Remote, F)
       IN CommitMS("ensureTable", 0, kind, F,
                   MSOut(out.R, Cred, out.ok, out.err, TRUE))

\* time passes while a stored token is still on its way to its expiry
TickUntilExpiry ==
  /\ now < Lifetime
  /\ Tick

InitUpload ==
  /\ rev \in {"ts", "B"}
  /\ wbFile \in {"absent", "valid"}
  /\ sheet = <<>>
  /\ folders = [p \in AllPaths |-> 0]
  /\ files = {}
  /\ inv = [id \in Ids |-> [exists |-> TRUE, uploaded |-> FALSE, fileUrl |-> FALSE,
                             synced |-> FALSE, amount |-> 1]]
  /\ excelDone = {}
  /\ tbl = NoTbl
  /\ res = NoRes
  /\ log = <<>>
  /\ InitUi
  \* the tokens a former session left in localStorage
  /\ accessToken \in BOOLEAN
  /\ refreshToken \in BOOLEAN
  /\ tokenExpiry \in {0, Lifetime}
  /\ refreshToken => accessToken
  /\ ~accessToken => tokenExpiry = 0
  /\ now = 0
  /\ codeVerifier = FALSE
  /\ sentState = 0
  /\ url = NoUrl
  /\ pc = Idle
  /\ completed = 0
  /\ tres = NoTRes

NextUpload ==
  \/ \E id \in Ids : MS_uploadInvoiceToOneDrive(id)
  \/ TickUntilExpiry

SpecUpload == InitUpload /\ [][NextUpload]_vars

\* the workbook calls of revisions B and part_007 under a token that is valid
InitTable ==
  /\ rev \in {"B", "C"}
  /\ wbFile \in {"absent", "valid"}
  /\ sheet = <<>>
  /\ folders = [p \in AllPaths |-> 0]
  /\ files = {}
  /\ inv = [id \in Ids |-> [exists |-> TRUE, uploaded |-> FALSE, fileUrl |-> FALSE,
                             synced |-> FALSE, amount |-> 1]]
  /\ excelDone = {}
  /\ tbl = NoTbl
  /\ res = NoRes
  /\ log = <<>>
  /\ InitUi
  /\ accessToken = TRUE
  /\ refreshToken = TRUE
  /\ tokenExpiry = Lifetime
  /\ now = 0
  /\ codeVerifier = FALSE
  /\ sentState = 0
  /\ url = NoUrl
  /\ pc = Idle
  /\ completed = 0
  /\ tres = NoTRes

NextTable ==
  \/ \E id \in Ids : MS_appendToExcel(id)
  \/ \E id \in Ids : MS_updateInExcel(id)
  \/ MS_ensureExcelTableExists

SpecTable == InitTable /\ [][NextTable]_vars

\* ------------------- InvoiceService.uploadToOneDrive over revision B
\* getFileBlob, MicrosoftService.uploadInvoiceToOneDrive of revision B and,
\* on success, updateInvoiceOneDriveStatus; an exception of the status write
\* is caught and returned as {success: false}
B_InvoiceService_uploadToOneDrive(R, F, kind, expand, C, t, refreshOk, rec, id, blobOk, storeOk) ==
  LET result == B_uploadInvoiceToOneDrive(R, F, kind, expand, C, t, refreshOk,
                                          TRUE, id)
  IN IF ~blobOk
       THEN [R |-> R, C |-> C, rec |-> rec, ok |-> FALSE,
             err |-> "Invoice file not found"]
     ELSE IF ~result.ok
       THEN [R |-> result.R, C |-> result.C, rec |-> rec, ok |-> FALSE,
             err |-> result.err]
     ELSE IF ~storeOk
       THEN [R |-> result.R, C |-> result.C, rec |-> rec, ok |-> FALSE,
             err |-> "store"]
     ELSE [R |-> result.R, C |-> result.C, rec |-> Synced(rec), ok |-> TRUE,
           err |-> "none"]

CommitRetry(id, kind, clean, out) ==
  /\ Len(out.R.tbl.rows) + Len(out.R.tbl.ws) <= MaxRows
  /\ wbFile' = out.R.file
  /\ sheet' = out.R.sheet
  /\ folders' = out.R.folders
  /\ files' = out.R.files
  /\ tbl' = out.R.tbl
  /\ log' = out.R.log
  /\ inv' = [inv EXCEPT ![id] = out.rec]
  /\ accessToken' = out.C.accessToken
  /\ refreshToken' = out.C.refreshToken
  /\ tokenExpiry' = out.C.tokenExpiry
  /\ res' = [NoRes EXCEPT !.op = "bUpload", !.id = id, !.success = out.ok,
                          !.err = out.err, !.kind = kind, !.auth = TRUE,
                          !.clean = clean]
  /\ UNCHANGED <<rev, excelDone, uiVars>>
  /\ UNCHANGED <<now, codeVerifier, sentState, url, pc, completed, tres>>

B_uploadToOneDrive(id) ==
  /\ rev = "B"
  /\ inv[id].exists
  /\ \E F \in UploadFaults, kind \in {"ItemNotFound", "Unauthorized"},
        expand \in BOOLEAN, local \in {"ok", "noBlob", "noStore"} :
       CommitRetry(id, kind, F = {} /\ local = "ok",
                   B_InvoiceService_uploadToOneDrive(
                     Remote, F, kind, expand, Cred, now, TRUE, inv[id], id,
                     local # "noBlob", local # "noStore"))

InitRetry == InitTable /\ rev = "B" /\ wbFile = "valid"

NextRetry == \E id \in Ids : B_uploadToOneDrive(id)

SpecRetry == InitRetry /\ [][NextRetry]_vars

\* ------------------------------- syncToExcel runs that interleave
\* syncToExcel, append branch, up to the answer of findExistingRow: go says
\* that the run goes on to appendRowToExcel, read that the rows were read
B_checkDuplicate(R, F, kind, id) ==
  LET file == B_ensureExcelFileExists(R, F, kind)
      table == B_ensureExcelTableExists(file.R, F, kind)
      find == B_findExistingRow(table.R, F, id)
      stop(out) ==
        [R |-> out.R, ok |-> FALSE, err |-> out.err, go |-> FALSE, read |-> FALSE]
  IN IF ~file.ok THEN stop(file)
     ELSE IF ~table.ok THEN stop(table)
     ELSE IF find.found
       THEN [R |-> find.R, ok |-> FALSE, err |-> "Invoice already exists in Excel",
             go |-> FALSE, read |-> TRUE]
     ELSE [R |-> find.R, ok |-> TRUE, err |-> "none", go |-> TRUE,
           read |-> ~Fails(table.R, F, "rowsGet") /\ table.R.tbl.table # "none"]

CommitRun(op, id, F, out) ==
  /\ Len(out.R.tbl.rows) + Len(out.R.tbl.ws) <= MaxRows
  /\ wbFile' = out.R.file
  /\ sheet' = out.R.sheet
  /\ folders' = out.R.folders
  /\ files' = out.R.files
  /\ tbl' = out.R.tbl
  /\ log' = out.R.log
  /\ res' = [NoRes EXCEPT !.op = op, !.id = id, !.success = out.ok,
                          !.err = out.err, !.clean = F = {}, !.auth = TRUE]
  /\ UNCHANGED <<rev, inv, excelDone, tokenVars>>
  /\ UNCHANGED <<syncing, batch, pos, bpc, inflight, successCount, failureCount>>

\* a run of syncToExcel(invoice, 'append') from its start to the await of
\* appendRowToExcel: the event loop can run another handler there
startAppend(p, id) ==
  /\ rev = "B"
  /\ runs[p].at = "idle"
  /\ \E F \in TableFaults, kind \in Kinds \ {"Unauthorized"} :
       LET out == B_checkDuplicate(Remote, F, kind, id)
       IN /\ CommitRun("check", id, F, out)
          /\ runs' = [runs EXCEPT ![p] =
                        IF out.go THEN [at |-> "append", id |-> id, read |-> out.read]
                        ELSE NoRun]

\* the requests of appendRowToExcel and of its worksheet fallback; two of
\* them can fail in one call
MaxAppendFaults == 2
AppendReqs == {"rowPost", "wsList", "usedRange", "wsPatch"}
AppendFaults == FaultsUpTo(AppendReqs \X {1, MaxAttempts}, MaxAppendFaults)

\* the rest of the run: appendRowToExcel on the workbook as it is by now
finishAppend(p) ==
  /\ rev = "B"
  /\ runs[p].at = "append"
  /\ \E F \in AppendFaults, kind \in Kinds \ {"Unauthorized"}, expand \in BOOLEAN :
       CommitRun("append", runs[p].id, F,
                 B_appendRowToExcel(Remote, F, kind, expand, runs[p].id))
  /\ runs' = [runs EXCEPT ![p] = NoRun]

InitRace == InitTable /\ rev = "B"

NextRace ==
  \/ \E p \in Procs, id \in Ids : startAppend(p, id)
  \/ \E p \in Procs : finishAppend(p)

SpecRace == InitRace /\ [][NextRace]_vars

\* -------------------------------------------------- bulk sync of a month
\* calling uploadToOneDrive without await: the loop goes on to the delay
fireAndForget(phase) == "delay"
\* await InvoiceService.uploadToOneDrive(invoice): the loop is suspended
\* until the call returns
awaitUpload(phase) == "upload"

\* a loop that an item's failure ends
stopOnFailure(ok) == ok
\* the try/catch inside the loop body and the else branch of
\* `if (result.success)`: the loop goes on to the next item either way
loopGoesOn(ok) == TRUE

\* monthInvoices.filter(invoice => !invoice.onedrive_uploaded), in list order
RECURSIVE unsyncedFrom(_)
unsyncedFrom(id) ==
  IF id > NumInvoices THEN <<>>
  ELSE IF inv[id].exists /\ ~inv[id].uploaded
    THEN <<id>> \o unsyncedFrom(id + 1)
  ELSE unsyncedFrom(id + 1)
unsyncedInvoices == unsyncedFrom(1)

\* the Sync All button of the month: with nothing to sync an alert is shown,
\* otherwise the confirm dialog opens on the list as it is now
handleSyncAllMonth ==
  /\ bpc = "idle"
  /\ ~syncing
  /\ IF unsyncedInvoices = <<>>
       THEN UNCHANGED <<batch, bpc>>
       ELSE batch' = unsyncedInvoices /\ bpc' = "confirm"
  /\ UNCHANGED <<rev, syncVars, folders, res, log, tokenVars>>
  /\ UNCHANGED <<syncing, pos, inflight, successCount, failureCount, runs>>

\* onConfirm up to the first await: the month is marked as syncing, the
\* counters start at 0 and the upload of the first item is called
onConfirm ==
  /\ bpc = "confirm"
  /\ syncing' = TRUE
  /\ successCount' = 0
  /\ failureCount' = 0
  /\ pos' = 1
  /\ inflight' = inflight \cup {1}
  /\ bpc' = awaitUpload(bpc)
  /\ UNCHANGED <<rev, syncVars, folders, res, log, tokenVars, batch, runs>>

\* an uploadToOneDrive call of the batch returns: the counters are updated
\* and the loop, if it awaits this call, goes on to the delay
uploadReturns(i) ==
  /\ i \in inflight
  /\ \E F \in Faults(UploadReqs), p404 \in BOOLEAN :
       LET out == InvoiceService_uploadToOneDrive(Remote, F, p404,
                                                  inv[batch[i]], batch[i])
       IN /\ Commit("upload", batch[i], F, out)
          \* result.success counts as a success; a result without success
          \* and a caught exception count as a failure
          /\ successCount' = IF out.ok /\ ~out.threw
                              THEN successCount + 1 ELSE successCount
          /\ failureCount' = IF out.ok /\ ~out.threw
                              THEN failureCount ELSE failureCount + 1
          /\ IF bpc = "upload" /\ ~loopGoesOn(out.ok /\ ~out.threw)
               THEN /\ syncing' = FALSE
                    /\ bpc' = "idle"
                    /\ pos' = 0
                    /\ batch' = <<>>
               ELSE /\ bpc' = IF bpc = "upload" THEN "delay" ELSE bpc
                    /\ UNCHANGED <<syncing, batch, pos>>
  /\ inflight' = inflight \ {i}
  /\ UNCHANGED runs

\* the 500 ms timer fires: the loop takes the next item and calls its upload,
\* or, after the last item, shows the summary and enables the button again
delayElapsed ==
  /\ bpc = "delay"
  /\ IF pos < Len(batch)
       THEN /\ pos' = pos + 1
            /\ inflight' = inflight \cup {pos + 1}
            /\ bpc' = awaitUpload(bpc)
            /\ UNCHANGED <<syncing, batch>>
       ELSE /\ syncing' = FALSE
            /\ bpc' = "idle"
            /\ pos' = 0
            /\ batch' = <<>>
            /\ UNCHANGED inflight
  /\ UNCHANGED <<rev, syncVars, folders, res, log, tokenVars>>
  /\ UNCHANGED <<successCount, failureCount, runs>>

InitBulk == InitSync

NextBulk ==
  \/ handleSyncAllMonth
  \/ onConfirm
  \/ \E i \in 1..NumInvoices : uploadReturns(i)
  \/ delayElapsed
  \/ \E id \in Ids : uploadToOneDrive(id)

SpecBulk == InitBulk /\ [][NextBulk]_vars

\* ------------------------------------------------------------ claims
WorkbookMutations == {"rowDelete", "rowPatch", "hdrPatch", "fileCreate", "fileDelete"}
Mutated == \E i \in 1..Len(log) : log[i] \in WorkbookMutations
AmountOf(s, id) == s[FindTargetRow(s, id)].amount

\* C1: an upload (append) for a sequenceId that already has its row, from a
\* prior successful append, fails, and the row count for that id stays 1.
C1_AppendAfterAppendRejected ==
  (res.op = "upload" /\ res.before = 1)
    => (~res.success /\ RowCount(sheet, res.id) = 1)

\* C2: excelSynced is true only for a record whose Excel append/update step
\* completed, and an upload whose Excel step failed is not reported as success.
C2_NoFalseExcelSynced ==
  /\ \A id \in Ids : inv[id].synced => id \in excelDone
  /\ (res.op = "upload" /\ res.excel = "failed") => ~res.success

\* C6: a resync of an uploaded record whose id has no row, with every remote
\* request answered, creates exactly one row for the id and returns success.
C6_UpdateMissAppends ==
  (res.op = "resync" /\ res.miss /\ res.clean)
    => (res.success /\ RowCount(sheet, res.id) = 1)

\* C7: a resync of an uploaded, synced record whose row exists returns success,
\* leaves one row for the id, and that row holds the record's amount.
C7_ResyncUpdatesInPlace ==
  (res.op = "resync" /\ res.before = 1 /\ res.clean
     /\ inv[res.id].uploaded /\ inv[res.id].synced)
    => (res.success /\ RowCount(sheet, res.id) = 1
        /\ AmountOf(sheet, res.id) = inv[res.id].amount)

\* C8: removing the Excel row of an id that has no row returns success and
\* issues no workbook mutation (no row delete, no file create, no file delete).
C8_DeleteMissIsSuccess ==
  (res.op = "delete" /\ res.excel # "none" /\ res.before = 0 /\ res.clean)
    => (res.excel = "ok" /\ ~Mutated)

\* C3: token refresh is single-flight: at no time are two refresh-token
\* requests of concurrent ensureValidToken calls in flight together.
C3_SingleFlightRefresh ==
  Cardinality({p \in Procs : pc[p] = "refreshing"}) <= 1

\* C4: the PKCE verifier is single-use: a login callback that returns, with
\* success or failure, leaves no verifier in storage, and a callback that
\* starts after one has returned, with no new initiateLogin, fails with
\* MissingVerifier and sends no token request.
C4_VerifierSingleUse ==
  [][/\ (\E p \in Procs, ok \in BOOLEAN, hr \in BOOLEAN, he \in BOOLEAN :
           handleAuthorizationCallback(p, ok, hr, he)) => ~codeVerifier'
     /\ (\E p \in Procs : AuthCallback(p) /\ pc' = pc) => ~codeVerifier'
     /\ (completed >= 1 /\ \E p \in Procs : AuthCallback(p))
          => (tres'.err = "MissingVerifier" /\ ~tres'.ok /\ pc' = pc)]_vars

\* after a login whose callback exchanged the code, a second callback has
\* run without a new initiateLogin and failed on the missing verifier
C4_Witness ==
  /\ tres.op = "callback" /\ tres.err = "MissingVerifier" /\ tres.nth = 2
  /\ sentState # 0 /\ accessToken

\* C5: a login callback whose state parameter differs from the state that
\* initiateLogin sent is refused (StateMismatch): it exchanges no code and
\* stores no credential.
C5_StateMismatchRejected ==
  (tres.op = "callback" /\ ~tres.stateOk)
    => (~tres.ok /\ ~tres.exchanged)

\* C10: an ensureValidToken call that fails (refresh refused, or token expired
\* with no refresh token) leaves no access token, refresh token or expiry.
C10_FailureClearsCredential ==
  (tres.op = "ensureValidToken" /\ ~tres.ok)
    => (~accessToken /\ ~refreshToken /\ tokenExpiry = 0)

IsCreate(name) == \E k \in 1..Len(FolderPath) : name = DirCreate(k)
Creates == {i \in 1..Len(log) : IsCreate(log[i])}
CreatesInOrder ==
  \A i \in Creates, j \in Creates :
    i < j => \E a \in 1..Len(FolderPath), b \in 1..Len(FolderPath) :
               a < b /\ log[i] = DirCreate(a) /\ log[j] = DirCreate(b)

\* C9: ensureFolder is idempotent: a call that ends normally with every request
\* answered leaves exactly one folder at each prefix of the path, a call made
\* when they all exist issues no create, no folder is ever duplicated, and
\* the creates of one call run from the shallowest segment to the deepest.
C9_EnsureFolderIdempotent ==
  res.op = "ensureFolder" =>
    /\ (res.clean /\ res.success)
         => \A q \in Prefixes(SubSeq(FolderPath, 1, res.id)) : folders[q] = 1
    /\ \A q \in AllPaths : folders[q] <= 1
    /\ res.before = 1 => Creates = {}
    /\ CreatesInOrder

\* C11: an upload that starts with an expired access token and a stored
\* refresh token sends one refresh-token request, and a refresh the token
\* endpoint accepts leaves a stored, unexpired access token and lets the
\* operation go on.
ExpiredWithRefresh ==
  accessToken /\ refreshToken /\ tokenExpiry # 0 /\ now >= tokenExpiry
C11_ExpiredTokenIsRefreshed ==
  [][/\ \A p \in Procs :
          (uploadInvoiceAuth(p) /\ ExpiredWithRefresh)
            => (pc' = [pc EXCEPT ![p] = "refreshing"] /\ refreshToken')
     /\ \A p \in Procs, hr \in BOOLEAN :
          refreshAccessToken(p, TRUE, hr)
            => (accessToken' /\ tres'.ok /\ now < tokenExpiry')]_vars

\* C12: isAuthenticated() answers true exactly when an access token with an
\* expiry is stored and the clock is more than the 5 minute buffer before
\* that expiry.
C12_IsAuthenticatedWithBuffer ==
  [][isAuthenticated
       => (tres'.ok <=> (accessToken /\ tokenExpiry # 0
                          /\ now < tokenExpiry - BufferA))]_vars

\* C13: isAuthenticated() is pure: the stored access token, refresh token,
\* expiry and PKCE verifier are the same after the call as before it.
C13_IsAuthenticatedIsPure ==
  [][isAuthenticated
       => UNCHANGED <<accessToken, refreshToken, tokenExpiry, codeVerifier>>]_vars

\* C14: a token response without expires_in, accepted by the login callback,
\* leaves a stored expiry of the one hour default after the time of issue.
C14_DefaultExpiryOneHour ==
  [][\A p \in Procs, hr \in BOOLEAN :
       handleAuthorizationCallback(p, TRUE, hr, FALSE)
         => tokenExpiry' = now + DefaultLifetime]_vars

\* C15: after logout() no access token, refresh token, expiry or PKCE
\* verifier is stored.
C15_LogoutPurgesEverything ==
  tres.op = "logout"
    => (~accessToken /\ ~refreshToken /\ tokenExpiry = 0 /\ ~codeVerifier)

\* C16: an uploadToOneDrive call in which a step failed (the result is a
\* failure, or the Excel step failed) returns success:false and leaves every
\* invoice record as it was before the call.
C16_FailedUploadLeavesRecord ==
  [][(res'.op = "upload" /\ (~res'.success \/ res'.excel = "failed"))
       => (~res'.success /\ inv' = inv)]_vars

\* C17: resyncToExcel of a record that lacks onedrive_uploaded or the file URL
\* fails with 'Invoice must be uploaded to OneDrive first', sends no remote
\* request and leaves the records and the remote state as they were.
C17_ResyncRequiresUpload ==
  [][(res'.op = "resync"
        /\ (~inv[res'.id].uploaded \/ ~inv[res'.id].fileUrl))
       => /\ ~res'.success
          /\ res'.err = "Invoice must be uploaded to OneDrive first"
          /\ log' = <<>>
          /\ inv' = inv
          /\ UNCHANGED <<wbFile, sheet, folders, files, excelDone>>]_vars
C17_Witness ==
  /\ res.op = "resync"
  /\ res.err = "Invoice must be uploaded to OneDrive first"
  /\ ~inv[res.id].uploaded
  /\ log = <<>>

Requests == {log[i] : i \in 1..Len(log)}

\* C18: the remote cleanup of deleteInvoice is advisory: the file delete is
\* requested for an uploaded record and the row delete is attempted for a
\* synced record whatever the file delete answered, and the record is deleted
\* locally with a successful result whenever the record store itself works,
\* whatever the two cleanup steps answered.
C18_RemoteCleanupAdvisory ==
  [][res'.op = "delete"
       => LET rec == inv[res'.id]
          IN /\ (rec.uploaded /\ rec.fileUrl) => "fileItemDelete" \in Requests'
             /\ rec.synced => (res'.excel # "none" /\ "fileGet" \in Requests')
             /\ res'.err # "store" => (res'.success /\ ~inv'[res'.id].exists)]_vars
\* a delete whose file delete failed (the file is still there), whose row
\* delete went on and which deleted the record locally
C18_Witness ==
  /\ res.op = "delete"
  /\ "fileItemDelete" \in Requests
  /\ res.id \in files
  /\ res.excel = "ok"
  /\ res.success
  /\ ~inv[res.id].exists

\* C19: uploadToOneDrive and resyncToExcel always hand back a result, never
\* an exception, whatever the remote requests and the status write did; the
\* only exception that leaves deleteInvoice is one of the record store, never
\* one of its remote cleanup.
C19_NoExceptionEscapes ==
  /\ res.op \in {"upload", "resync"} => ~res.threw
  /\ (res.op = "delete" /\ res.threw) => res.err = "store"
\* an upload whose status write was rejected and which returned a failure
C19_Witness ==
  /\ res.op = "upload"
  /\ res.err = "store"
  /\ ~res.success
  /\ ~res.threw

\* C20: within one batch run at most one uploadToOneDrive call of the batch
\* is in flight, and an item's upload starts only when no earlier one is in
\* flight and, after the first item, only by the delay timer firing for the
\* item that follows the one just finished.
C20_BatchIsSequential ==
  [][/\ Cardinality(inflight') <= 1
     /\ \A i \in 1..NumInvoices :
          (i \notin inflight /\ i \in inflight')
            => /\ inflight = {}
               /\ \/ i = 1 /\ bpc = "confirm"
                  \/ i > 1 /\ bpc = "delay" /\ i = pos + 1]_vars
\* the second item of a batch is in flight after the first has returned
C20_Witness ==
  /\ Len(batch) >= 2
  /\ pos = 2
  /\ inflight = {2}
  /\ successCount + failureCount = 1

\* C21: a batch does not stop at an item's failure: the uploads of a batch
\* are started for the items 1, 2, ... of the list of invoices unsynced at the
\* start, each once, and when the batch ends every item has been taken and
\* successCount + failureCount is the length of that list.
C21_BatchAttemptsEveryItem ==
  [][/\ \A i \in 1..NumInvoices :
          (i \notin inflight /\ i \in inflight')
            => (i = pos + 1 /\ pos' = i /\ i <= Len(batch) /\ batch' = batch)
     /\ (bpc \in {"upload", "delay"} /\ bpc' = "idle")
          => (pos = Len(batch) /\ successCount' + failureCount' = Len(batch))]_vars
\* a batch of two items has ended with a failed item counted
C21_Witness ==
  /\ bpc = "idle"
  /\ ~syncing
  /\ failureCount >= 1
  /\ successCount + failureCount = 2

AuthErrors == {"Authentication required", "Not authenticated with Microsoft"}

\* C22: an uploadInvoiceToOneDrive call whose token check found no valid
\* token returns a failure that names authentication, and sends no drive or
\* workbook request: the remote state is as before.
C22_NoTokenNoRequest ==
  [][(res'.op = "msUpload" /\ ~res'.auth)
       => /\ ~res'.success
          /\ res'.err \in AuthErrors
          /\ log' = <<>>
          /\ UNCHANGED <<wbFile, sheet, folders, files, tbl>>]_vars
\* an upload refused for want of a token, after an expired token was dropped
C22_Witness ==
  /\ res.op = "msUpload"
  /\ ~res.auth
  /\ ~res.success
  /\ log = <<>>
  /\ ~accessToken
  /\ now >= Lifetime

WorkbookReqs ==
  TableReqs \cup {"search", "fileGet", "wsCheck", "fileDelete", "wsList",
                  "hdrGet", "rowPatch"}

\* C23: in an uploadInvoiceToOneDrive call the file upload is sent only when
\* the invoice folder has been ensured (it exists), and a workbook request is
\* sent only when the file upload succeeded (the file is there).
C23_StepsGateEachOther ==
  [][res'.op = "msUpload"
       => /\ "upload" \in Requests' => folders'[InvoiceDirectory] > 0
          /\ (Requests' \cap WorkbookReqs # {}) => res'.id \in files']_vars

\* C24: a file upload answered with 401 ends the call with a failure, is not
\* sent again in the call, and leaves no access token, refresh token or
\* expiry stored.
C24_UploadUnauthorizedPurges ==
  [][(res'.op = "msUpload" /\ res'.kind = "Unauthorized" /\ log' # <<>>
        /\ log'[Len(log')] = "upload")
       => /\ ~res'.success
          /\ Count(log', "upload") = 1
          /\ ~accessToken' /\ ~refreshToken' /\ tokenExpiry' = 0]_vars

TableOps == {"ensureTable", "msAppend", "msUpdate"}
TableLoopReqs == {"tblList", "tblAdd", "hdrPatch"}
WaitNames == {WaitName(s) : s \in {1, 2, 3, 4, 8, 16}}
IsWait(x) == x \in WaitNames
WaitsOf(l) == SelectSeq(l, IsWait)
IsPrefix(a, b) == Len(a) <= Len(b) /\ a = SubSeq(b, 1, Len(a))
\* no retry loop of the call went beyond its three attempts, and a failed
\* row POST is never the end of the call
AttemptsBounded(l) ==
  /\ Count(l, "rowPost") <= MaxAttempts
  /\ \A i \in 2..Len(l) :
       (IsWait(l[i]) /\ l[i - 1] = "rowPost")
         => l[i] = WaitName(Pow2(Count(SubSeq(l, 1, i), "rowPost") - 1))

C26_NoRetryOnClientError ==
  [][(res'.op \in TableOps /\ res'.kind = "BadRequest")
       => \A name \in {"tblAdd", "hdrPatch", "wsPatch"} :
            Count(log', name) <= 1]_vars

C28_CreatedTableHasHeaders ==
  [][(res'.op = "ensureTable" /\ res'.success /\ tbl'.creates > tbl.creates)
       => tbl'.table = "headed"]_vars

\* C29: after a successful appendToExcel of an invoice, the next call for
\* the same invoice, all of whose requests are answered, finds the row: an
\* append is rejected as a duplicate, an update patches the row.
C29_AppendedRowIsFound ==
  [][(/\ res.op = "msAppend" /\ res.success
      /\ res'.id = res.id /\ res'.clean /\ res'.auth)
       => /\ res'.op = "msAppend"
               => (~res'.success /\ res'.err = "Invoice already exists in Excel")
          /\ res'.op = "msUpdate"
               => (res'.success /\ "rowPatchAt" \in Requests')]_vars

\* what the user can trigger on the list while a batch runs: the Sync All
\* button, the confirm dialog, the sync button of one invoice
UiEvent ==
  \/ handleSyncAllMonth
  \/ onConfirm
  \/ \E id \in Ids : uploadToOneDrive(id)
\* a user event after which the batch has no item left to issue
StopBatch == UiEvent /\ (bpc' = "idle" \/ pos' >= Len(batch'))

\* C30: while a batch waits between two items, the user can trigger a stop:
\* an event after which the batch issues no further upload.
C30_BatchCanBeStopped ==
  (bpc = "delay" /\ pos < Len(batch)) => ENABLED StopBatch

\* C31: whatever saves, uploads and resyncs a single client has issued one
\* after another, the worksheet holds at most one row per invoice id.
C31_OneRowPerInvoice == \A id \in Ids : RowCount(sheet, id) <= 1

\* C32: a syncToExcel run that read the rows of Table1, found no row of its
\* invoice and then appended leaves at most one row of that invoice in
\* Table1, whatever another run did between its check and its append.
C32_InterleavedRunsNoDuplicate ==
  [][\A p \in Procs :
       (runs[p].at = "append" /\ runs[p].read /\ runs'[p].at = "idle")
         => Count(tbl'.rows, runs[p].id) <= 1]_vars

\* C33: an upload that keeps the workbook file (it neither deletes nor
\* creates it) leaves every data row of the worksheet where it was, with
\* the values it had: its append writes to a row that was blank.
C33_AppendKeepsRows ==
  [][(/\ res'.op = "upload"
      /\ wbFile = "valid"
      /\ Requests' \cap {"fileDelete", "fileCreate"} = {})
       => /\ Len(sheet') >= Len(sheet)
          /\ \A i \in 2..Len(sheet) : sheet'[i] = sheet[i]]_vars

\* C34: a stored PKCE verifier is removed only by the login callback that
\* consumes it or by logout; isAuthenticated, the token check of an upload,
\* a refresh or a page load leave it in storage.
C34_VerifierSurvives ==
  [][(codeVerifier /\ ~codeVerifier') => tres'.op \in {"callback", "logout"}]_vars

\* C35: after an upload that failed only because the status write failed,
\* its row being appended, the next upload of the same record, with the
\* file read, every request answered and the status written, returns
\* success and marks the record uploaded and synced.
C35_RetryAfterStatusWriteFailure ==
  [][(/\ res.op = "bUpload" /\ ~res.success /\ res.err = "store"
      /\ res'.op = "bUpload" /\ res'.id = res.id /\ res'.clean)
       => (res'.success /\ inv'[res.id].uploaded /\ inv'[res.id].synced)]_vars

\* C36: appendRowToExcel adds exactly one row, in Table1 or on the
\* worksheet, when it returns normally, and leaves the rows as they were
\* when it throws.
C36_ExactlyOneRowPerAppend ==
  [][res'.op = "append"
       => IF res'.success
          THEN Len(tbl'.rows) + Len(tbl'.ws) = Len(tbl.rows) + Len(tbl.ws) + 1
          ELSE tbl' = tbl]_vars

\* C37: for one redirect back from the identity provider the callback effect
\* hands the authorization code to handleAuthorizationCallback at most once,
\* also when the effect runs again while the page is shown: no two token
\* requests for the code of one page load are in flight together, and a
\* callback that exchanged the code with success is not followed, on the same
\* page, by a callback whose exchange fails.
C37_CodeHandedOverOnce ==
  [][/\ Cardinality({p \in Procs : pc'[p] = "exchanging"}) <= 1
     /\ (/\ tres.op = "callback" /\ tres.ok /\ tres.exchanged
         /\ tres'.op = "callback" /\ tres'.exchanged) => tres'.ok]_vars

====
